---- MODULE Spec2Model ----
(***************************************************************************)
(* State-machine model of src/sugar.rs: the typed client facade            *)
(* (ClientChannel), the server dispatcher (ServerChannel) and the          *)
(* UpdateStream adapter, running over one connection of an abstract        *)
(* bidirectional channel.                                                  *)
(*                                                                         *)
(* One client task performs calls one after the other; one server task     *)
(* runs a loop of accept_one followed by the dispatch that matches the     *)
(* request.  Every step of the model is one poll-level step of one of the  *)
(* two tasks, or one event of the transport.  A future that is polled and  *)
(* returns Pending changes nothing and is therefore not a step of its own. *)
(***************************************************************************)
EXTENDS Integers, Sequences, FiniteSets, TLC

\* ------------------------------------------------------------------ bounds
MaxCalls == 2    \* substreams the client opens on the connection
MaxUpd == 2      \* frames the client sends after the request, per call
MaxResp == 2     \* items a streaming handler produces, per call
MaxFaults == 1   \* transport faults (failed open/accept/send, receive error)

Calls == 1..MaxCalls
\* Payloads are opaque to sugar.rs.  The i-th update the client pushes on a
\* call carries i and the i-th response a handler produces carries i, so that a
\* lost, repeated or reordered frame shows in the sequence of payloads.

\* The interaction patterns (sugar.rs, InteractionPattern).  The model has one
\* message per pattern and names the message by its pattern.
Rpc == "Rpc"
ClientStreaming == "ClientStreaming"
ServerStreaming == "ServerStreaming"
BidiStreaming == "BidiStreaming"
Patterns == {Rpc, ClientStreaming, ServerStreaming, BidiStreaming}
HasUpdates(p) == p \in {ClientStreaming, BidiStreaming}
HasResponseStream(p) == p \in {ServerStreaming, BidiStreaming}

\* ------------------------------------------------- wire values (S::Req, S::Res)
\* A value of the request sum type S::Req is the request of a message or an
\* update of a message; a value of S::Res is a response of a message.  RecvErr
\* stands for an Err(RecvError) item of a RecvStream.
RecvErr == [t |-> "err", m |-> "-", v |-> 0]

\* M -> S::Req (msg.into())
IntoReq(p) == [t |-> "req", m |-> p, v |-> 0]
\* M::Update -> S::Req (x.into() inside the update sink)
UpdateIntoReq(p, u) == [t |-> "upd", m |-> p, v |-> u]
\* M::Response -> S::Res (res.into())
ResponseIntoRes(p, r) == [t |-> "res", m |-> p, v |-> r]
\* An update of another message than p (e.g. a SumUpdate on a Multiply call).
OtherMsg(p) == IF p = BidiStreaming THEN ClientStreaming ELSE BidiStreaming
ForeignUpdate(p) == [t |-> "upd", m |-> OtherMsg(p), v |-> 1]

\* M::Update::try_from(S::Req): succeeds for the updates of message p only.
\* For an RpcMsg the update type is the message itself (sugar.rs line 28).
UpdateTryFrom(p, f) ==
    IF p = Rpc THEN f.t = "req" /\ f.m = p
    ELSE f.t = "upd" /\ f.m = p
\* M::Response::try_from(S::Res)
ResponseTryFrom(p, f) == f.t = "res" /\ f.m = p

\* Items of the client's typed halves: Ok(response) or an item error.
OkItem(r) == [tag |-> "Ok", v |-> r]
ErrItem(e) == [tag |-> e, v |-> 0]

\* ----------------------------------------------------------- the transport
\* One substream: the client-to-server direction (frames in flight c2s, the
\* client's SendSink cw, the server's RecvStream sr) and the reverse direction
\* (s2c, the server's SendSink sw, the client's RecvStream cr).  A half is
\* "open" while its owner holds it and "closed" once it was dropped.
Unopened == [c2s |-> << >>, cw |-> "closed", sr |-> "closed",
             s2c |-> << >>, sw |-> "closed", cr |-> "closed"]
Opened == [c2s |-> << >>, cw |-> "open", sr |-> "open",
           s2c |-> << >>, sw |-> "open", cr |-> "open"]

\* Dropping a RecvStream discards what is in flight towards it.
DropClientSend(w) == [w EXCEPT !.cw = "closed"]
DropClientRecv(w) == [w EXCEPT !.cr = "closed", !.s2c = << >>]
DropClientBoth(w) == DropClientRecv(DropClientSend(w))
DropServerSend(w) == [w EXCEPT !.sw = "closed"]
DropServerRecv(w) == [w EXCEPT !.sr = "closed", !.c2s = << >>]
DropServerBoth(w) == DropServerRecv(DropServerSend(w))

\* SendSink::send: the frame is queued behind the frames already in flight.
\* It fails when the peer dropped its receiving half.
ClientCanSend(w) == w.cw = "open" /\ w.sr = "open"
ClientSend(w, f) == [w EXCEPT !.c2s = Append(@, f)]
ServerCanSend(w) == w.sw = "open" /\ w.cr = "open"
ServerSend(w, f) == [w EXCEPT !.s2c = Append(@, f)]

\* RecvStream::next: "Pending" while nothing is in flight and the peer's sink
\* is open, "None" at end of stream, otherwise the frame at the head.
ServerRecvPoll(w) ==
    IF w.c2s # << >> THEN "Some"
    ELSE IF w.cw = "closed" THEN "None" ELSE "Pending"
ClientRecvPoll(w) ==
    IF w.s2c # << >> THEN "Some"
    ELSE IF w.sw = "closed" THEN "None" ELSE "Pending"
ServerRecvTake(w) == [w EXCEPT !.c2s = Tail(@)]
ClientRecvTake(w) == [w EXCEPT !.s2c = Tail(@)]

VARIABLES
    conn,      \* the connection: "open", or "closed" once the client dropped it
    wire,      \* Calls -> substream
    faults,    \* transport faults so far
    pat,       \* Calls -> the pattern of the message the client called
    cpc,       \* client task: "idle", "opened", "active", "gone"
    ccall,     \* substreams the client has opened
    cres,      \* outcome of the client's current call
    cgot,      \* items the client's response stream has yielded
    cend,      \* the client's response stream has ended
    cgood,     \* the client made only well-formed calls and abandoned none
    pushed,    \* Calls -> frames sent after the request (0: a foreign frame)
    spc,       \* server task: "accept", "first", "race", "stopped"
    scall,     \* substreams the server has accepted
    sreq,      \* the request accept_one returned for the current call
    ares,      \* outcome of accept_one for the current call
    dres,      \* outcome of the dispatch of the current call
    firstErr,  \* the first error accept_one or a dispatch returned to the loop
    hpc,       \* handler branch: "run", "await" (on the UpdateStream), "send", "done"
    hitem,     \* the response the handler branch is about to send
    ssent,     \* responses sent so far by the current dispatch
    yielded,   \* updates the UpdateStream has yielded to the handler
    hend,      \* the UpdateStream has reported end of stream to the handler
    utx,       \* UpdateStream.1, the one-shot sender: "some", "taken", "dropped", "none"
    oneshot,   \* the value in the one-shot channel ("empty": none)
    won        \* what made race2 return: "handler", "read_error", or the event the
               \* cancellation branch saw ("Frame", "None", "Err"); "none" before

cvars == <<cpc, ccall, cres, cgot, cend, cgood, pushed, pat>>
hvars == <<hpc, hitem, ssent, yielded, hend, utx, oneshot, won>>
svars == <<spc, scall, sreq, ares, dres, firstErr>>
vars == <<conn, wire, faults, cvars, svars, hvars>>

Init ==
    /\ conn = "open"
    /\ wire = [k \in Calls |-> Unopened]
    /\ faults = 0
    /\ pat = [k \in Calls |-> Rpc]
    /\ cpc = "idle" /\ ccall = 0 /\ cres = "none"
    /\ cgot = << >> /\ cend = FALSE /\ cgood = TRUE
    /\ pushed = [k \in Calls |-> << >>]
    /\ spc = "accept" /\ scall = 0 /\ sreq = IntoReq(Rpc)
    /\ ares = "none" /\ dres = "none" /\ firstErr = "none"
    /\ hpc = "run" /\ hitem = 0 /\ ssent = << >> /\ yielded = << >>
    /\ hend = FALSE /\ utx = "none" /\ oneshot = "empty" /\ won = "none"

\* ============================================================ ClientChannel
\* The client's current substream.
CW == wire[ccall]
CPat == pat[ccall]

\* The client task is between calls once it holds neither half.
ClientPc(w) == IF w.cw = "closed" /\ w.cr = "closed" THEN "idle" ELSE "active"

\* self.channel.open_bi().await (first step of each of the four methods)
open_bi ==
    /\ cpc = "idle" /\ conn = "open" /\ ccall < MaxCalls
    /\ \E p \in Patterns :
         /\ ccall' = ccall + 1
         /\ wire' = [wire EXCEPT ![ccall + 1] = Opened]
         /\ pat' = [pat EXCEPT ![ccall + 1] = p]
    /\ cpc' = "opened" /\ cres' = "none" /\ cgot' = << >> /\ cend' = FALSE
    /\ UNCHANGED <<cgood, conn, faults, pushed, svars, hvars>>

\* open_bi fails: the method returns the Open error.
open_bi_error ==
    /\ cpc = "idle" /\ conn = "open" /\ ccall < MaxCalls
    /\ faults < MaxFaults
    /\ faults' = faults + 1
    /\ cres' = "Open" /\ cgot' = << >> /\ cend' = FALSE
    /\ UNCHANGED <<cgood, conn, wire, cpc, ccall, pushed, pat, svars, hvars>>

\* What each method does with the sink once the request is sent: rpc holds
\* it until the answer is there (drop(send) comes after recv.next().await),
\* server_streaming moves it into the KeepaliveStream, client_streaming and
\* bidi hand it to the user as the update sink.  None of them drops it.
SendDroppedAfterRequest(p, w) ==
    IF p \in {Rpc, ServerStreaming} THEN DropClientSend(w) ELSE w
SendAfterRequest(p, w) == w

\* send.send(msg).await: the initial request.
send_request ==
    /\ cpc = "opened"
    /\ ClientCanSend(CW)
    /\ wire' = [wire EXCEPT ![ccall] =
                  SendAfterRequest(CPat, ClientSend(@, IntoReq(CPat)))]
    /\ cpc' = "active"
    /\ UNCHANGED <<cgood, conn, faults, ccall, cres, cgot, cend, pushed, pat, svars, hvars>>

\* The send of the request fails: the method returns the Send error (the `?`
\* after map_err) and both halves are dropped with it.
send_request_error_ignored ==
    /\ cpc = "opened"
    /\ faults < MaxFaults
    /\ faults' = faults + 1
    /\ cpc' = "active"
    /\ UNCHANGED <<cgood, conn, wire, ccall, cres, cgot, cend, pushed, pat, svars, hvars>>
send_request_error ==
    /\ cpc = "opened"
    /\ faults < MaxFaults
    /\ faults' = faults + 1
    /\ wire' = [wire EXCEPT ![ccall] = DropClientBoth(@)]
    /\ cpc' = "idle" /\ cres' = "Send"
    /\ UNCHANGED <<cgood, conn, ccall, cgot, cend, pushed, pat, svars, hvars>>

\* What one frame read by the client becomes: the projected response, a
\* DowncastError, or a RecvError.
ClientItemByUpdateType(p, f) ==
    IF f = RecvErr THEN ErrItem("RecvError")
    ELSE IF UpdateTryFrom(p, f) THEN OkItem(f.v)
    ELSE ErrItem("DowncastError")
ClientItemRecvErrorAsDowncast(p, f) ==
    IF f # RecvErr /\ ResponseTryFrom(p, f) THEN OkItem(f.v)
    ELSE ErrItem("DowncastError")
ClientItem(p, f) ==
    IF f = RecvErr THEN ErrItem("RecvError")
    ELSE IF ResponseTryFrom(p, f) THEN OkItem(f.v)
    ELSE ErrItem("DowncastError")

\* ClientChannel::rpc after the request was sent: recv.next().await, then
\* drop(send), then the projection.  The halves the method still holds when
\* it returns are dropped by the return.
ClientChannel_rpc ==
    /\ cpc = "active" /\ CPat = Rpc /\ CW.cr = "open"
    /\ ClientRecvPoll(CW) # "Pending"
    /\ IF ClientRecvPoll(CW) = "None"
         THEN cres' = "EarlyClose" /\ cgot' = cgot
         ELSE LET it == ClientItem(CPat, Head(CW.s2c)) IN
              /\ cres' = it.tag
              /\ cgot' = IF it.tag = "Ok" THEN <<it>> ELSE cgot
    /\ wire' = [wire EXCEPT ![ccall] = DropClientBoth(@)]
    /\ cpc' = "idle"
    /\ UNCHANGED <<cgood, conn, faults, ccall, cend, pushed, pat, svars, hvars>>

\* The update sink of client_streaming and bidi: send.with(|x| x.into()).
\* sink.send(u) queues the injected update.
sink_send ==
    /\ cpc = "active" /\ HasUpdates(CPat) /\ ClientCanSend(CW)
    /\ Len(pushed[ccall]) < MaxUpd
    /\ LET u == Len(pushed[ccall]) + 1 IN
         /\ wire' = [wire EXCEPT ![ccall] = ClientSend(@, UpdateIntoReq(CPat, u))]
         /\ pushed' = [pushed EXCEPT ![ccall] = Append(@, u)]
    /\ UNCHANGED <<cgood, conn, faults, cpc, ccall, cres, cgot, cend, pat, svars, hvars>>

\* A client that bypasses the typed sink and writes a frame that is not an
\* update of the call's message (spec 8, scenario 5).
raw_send ==
    /\ cpc = "active" /\ ClientCanSend(CW)
    /\ Len(pushed[ccall]) < MaxUpd
    /\ wire' = [wire EXCEPT ![ccall] = ClientSend(@, ForeignUpdate(CPat))]
    /\ pushed' = [pushed EXCEPT ![ccall] = Append(@, 0)]
    /\ cgood' = FALSE
    /\ UNCHANGED <<conn, faults, cpc, ccall, cres, cgot, cend, pat, svars, hvars>>

\* The user closes (drops) the update sink.
sink_close ==
    /\ cpc = "active" /\ HasUpdates(CPat) /\ CW.cw = "open"
    /\ wire' = [wire EXCEPT ![ccall] = DropClientSend(@)]
    /\ cpc' = ClientPc(wire'[ccall])
    /\ UNCHANGED <<cgood, conn, faults, ccall, cres, cgot, cend, pushed, pat, svars, hvars>>

\* The response future of ClientChannel::client_streaming resolves: it reads
\* one frame and is consumed, which drops the read half.
response_future ==
    /\ cpc = "active" /\ CPat = ClientStreaming /\ CW.cr = "open"
    /\ ClientRecvPoll(CW) # "Pending"
    /\ IF ClientRecvPoll(CW) = "None"
         THEN cres' = "EarlyClose" /\ cgot' = cgot
         ELSE LET it == ClientItem(CPat, Head(CW.s2c)) IN
              /\ cres' = it.tag
              /\ cgot' = IF it.tag = "Ok" THEN <<it>> ELSE cgot
    /\ wire' = [wire EXCEPT ![ccall] = DropClientRecv(@)]
    /\ cpc' = ClientPc(wire'[ccall])
    /\ UNCHANGED <<cgood, conn, faults, ccall, cend, pushed, pat, svars, hvars>>

\* KeepaliveStream::poll_next only forwards the poll to the stream it wraps:
\* the sink it holds stays as it is, also when the wrapped stream has ended.
KeepaliveClosesAtEnd(p, w) ==
    IF p = ServerStreaming THEN DropClientSend(w) ELSE w
KeepaliveAtEnd(p, w) == w

\* The response stream of server_streaming (KeepaliveStream over recv.map) and
\* of bidi (recv.map): one poll that is not Pending.
response_stream_next_early_close ==
    /\ cpc = "active" /\ HasResponseStream(CPat) /\ CW.cr = "open" /\ ~cend
    /\ ClientRecvPoll(CW) # "Pending"
    /\ IF ClientRecvPoll(CW) = "None"
         THEN /\ cend' = TRUE
              /\ wire' = [wire EXCEPT ![ccall] = KeepaliveAtEnd(CPat, @)]
              /\ cgot' = IF cgot = << >> THEN <<ErrItem("EarlyClose")>> ELSE cgot
         ELSE /\ cgot' = Append(cgot, ClientItem(CPat, Head(CW.s2c)))
              /\ wire' = [wire EXCEPT ![ccall] = ClientRecvTake(@)]
              /\ cend' = cend
    /\ UNCHANGED <<cgood, conn, faults, cpc, ccall, cres, pushed, pat, svars, hvars>>
response_stream_next ==
    /\ cpc = "active" /\ HasResponseStream(CPat) /\ CW.cr = "open" /\ ~cend
    /\ ClientRecvPoll(CW) # "Pending"
    /\ IF ClientRecvPoll(CW) = "None"
         THEN /\ cend' = TRUE
              /\ wire' = [wire EXCEPT ![ccall] = KeepaliveAtEnd(CPat, @)]
              /\ UNCHANGED cgot
         ELSE /\ cgot' = Append(cgot, ClientItem(CPat, Head(CW.s2c)))
              /\ wire' = [wire EXCEPT ![ccall] = ClientRecvTake(@)]
              /\ cend' = cend
    /\ UNCHANGED <<cgood, conn, faults, cpc, ccall, cres, pushed, pat, svars, hvars>>

\* Dropping the response stream.  The stream of server_streaming is a
\* KeepaliveStream(recv, send): the sink goes with it.
KeepaliveDrop(p, w) ==
    IF p = ServerStreaming THEN DropClientBoth(w) ELSE DropClientRecv(w)

\* The user drops the response stream after reading it to its end.
response_drop ==
    /\ cpc = "active" /\ HasResponseStream(CPat) /\ CW.cr = "open" /\ cend
    /\ wire' = [wire EXCEPT ![ccall] = KeepaliveDrop(CPat, @)]
    /\ cpc' = ClientPc(wire'[ccall])
    /\ UNCHANGED <<cgood, conn, faults, ccall, cres, cgot, cend, pushed, pat, svars, hvars>>

\* The user drops the response stream before its end, or the response future
\* before it resolved.
response_drop_early ==
    /\ cpc = "active" /\ CPat # Rpc /\ CW.cr = "open" /\ ~cend
    /\ wire' = [wire EXCEPT ![ccall] = KeepaliveDrop(CPat, @)]
    /\ cpc' = ClientPc(wire'[ccall])
    /\ cgood' = FALSE
    /\ UNCHANGED <<conn, faults, ccall, cres, cgot, cend, pushed, pat, svars, hvars>>

\* The client drops its connection between two calls.
drop_connection ==
    /\ cpc = "idle" /\ conn = "open"
    /\ conn' = "closed" /\ cpc' = "gone"
    /\ UNCHANGED <<cgood, wire, faults, ccall, cres, cgot, cend, pushed, pat, svars, hvars>>

\* ========================================================== RpcServerError
\* The six kinds of RpcServerError and their representations: fmt::Debug
\* writes one label per match arm, fmt::Display calls fmt::Debug.
ErrorKinds ==
    {"AcceptBiError", "EarlyClose", "UnexpectedStartMessage",
     "RecvError", "SendError", "UnexpectedUpdateMessage"}
DebugLabel(e) ==
    CASE e = "AcceptBiError" -> "AcceptBiError"
      [] e = "EarlyClose" -> "EarlyClose"
      [] e = "RecvError" -> "RecvError"
      [] e = "SendError" -> "SendError"
      [] e = "UnexpectedStartMessage" -> "UnexpectedStartMessage"
      [] e = "UnexpectedUpdateMessage" -> "UnexpectedStartMessage"
DisplayLabel(e) == DebugLabel(e)

\* ============================================================ ServerChannel
\* The server's current substream and the pattern of its dispatch.
SW == wire[scall]
SPat == sreq.m

\* The server loop: accept_one, then the dispatch matching the request, again
\* and again.  firstErr keeps the first error that came back to the loop: a
\* loop that stops at the first error stops there, with that error.  The
\* modelled loop goes on after an error of one call and ends once accept_bi
\* has failed.
FirstErr(res) == IF firstErr = "none" /\ res # "Ok" THEN res ELSE firstErr
LoopAfter(res) ==
    /\ spc' = "accept"
    /\ firstErr' = FirstErr(res)

\* accept_one, first await: self.channel.accept_bi().await returns the next
\* substream the client opened.  What the previous call left behind is gone.
accept_bi ==
    /\ spc = "accept"
    /\ scall < ccall
    /\ scall' = scall + 1
    /\ spc' = "first"
    /\ ares' = "none" /\ dres' = "none" /\ sreq' = IntoReq(Rpc)
    /\ hpc' = "run" /\ hitem' = 0 /\ ssent' = << >> /\ yielded' = << >>
    /\ hend' = FALSE /\ utx' = "none" /\ oneshot' = "empty" /\ won' = "none"
    /\ pushed' = [k \in Calls |-> IF k <= scall THEN << >> ELSE pushed[k]]
    /\ pat' = [k \in Calls |-> IF k <= scall THEN Rpc ELSE pat[k]]
    /\ UNCHANGED <<conn, wire, faults, cpc, ccall, cres, cgot, cend, cgood, firstErr>>

\* accept_bi fails because the client dropped the connection:
\* map_err(RpcServerError::AcceptBiError)?
accept_bi_closed ==
    /\ spc = "accept"
    /\ scall = ccall /\ conn = "closed"
    /\ spc' = "stopped" /\ firstErr' = FirstErr("AcceptBiError")
    /\ UNCHANGED <<conn, wire, faults, cvars, scall, sreq, ares, dres, hvars>>

\* accept_bi fails on a transport error.
accept_bi_error ==
    /\ spc = "accept"
    /\ faults < MaxFaults
    /\ faults' = faults + 1
    /\ spc' = "stopped" /\ firstErr' = FirstErr("AcceptBiError")
    /\ UNCHANGED <<conn, wire, cvars, scall, sreq, ares, dres, hvars>>

\* How many frames accept_one reads from the accepted substream: one next().
AcceptTakesNone(w) == w
AcceptTake(w) == ServerRecvTake(w)

\* accept_one, second await: channel.1.next().await, mapped to EarlyClose,
\* RecvError or the request.  On Ok the caller selects the dispatch that
\* matches the request and the dispatch sets up its two branches:
\* client_streaming and bidi_streaming build an UpdateStream with a fresh
\* one-shot (UpdateStream::new), rpc and server_streaming build none.
accept_one ==
    /\ spc = "first"
    /\ ServerRecvPoll(SW) # "Pending"
    /\ IF ServerRecvPoll(SW) = "Some" /\ Head(SW.c2s) # RecvErr
         THEN /\ sreq' = Head(SW.c2s)
              /\ wire' = [wire EXCEPT ![scall] = AcceptTake(@)]
              /\ ares' = "Ok"
              /\ spc' = "race"
              /\ utx' = IF HasUpdates(Head(SW.c2s).m) THEN "some" ELSE "none"
              /\ UNCHANGED firstErr
         ELSE /\ ares' = IF ServerRecvPoll(SW) = "None" THEN "EarlyClose"
                         ELSE "RecvError"
              /\ wire' = [wire EXCEPT ![scall] = DropServerBoth(@)]
              /\ LoopAfter(ares')
              /\ UNCHANGED <<sreq, utx>>
    /\ UNCHANGED <<conn, faults, cvars, scall, dres,
                   hpc, hitem, ssent, yielded, hend, oneshot, won>>

\* The dispatch methods borrow the ServerChannel (&self) and use only the
\* substream they are given: whatever their result, the channel is as before.
ChannelClosedOnError(res, c) == IF res = "Ok" THEN c ELSE "closed"
ChannelAfterDispatch(res, c) == c

\* race2: tokio::select! over the two branches.  Each poll of the select polls
\* the branches in an order chosen at random and the first branch found ready
\* gives the result; the other branch is dropped.  The dispatch returns with
\* that result, which drops both halves of the substream and the UpdateStream.
race2_awaits_loser(by, res, w) ==
    /\ dres' = res
    /\ conn' = ChannelAfterDispatch(res, conn)
    /\ won' = by
    /\ IF by = "handler"
         THEN /\ hpc' = "done" /\ hitem' = 0
              /\ wire' = [wire EXCEPT ![scall] = DropServerBoth(w)]
              /\ utx' = IF utx = "some" THEN "dropped" ELSE utx
              /\ LoopAfter(res)
         ELSE /\ hpc' = hpc /\ hitem' = hitem
              /\ wire' = [wire EXCEPT ![scall] = DropServerRecv(w)]
              /\ utx' = utx
              /\ spc' = "race" /\ firstErr' = FirstErr(res)
race2_keeps_halves(by, res, w) ==
    /\ dres' = res
    /\ conn' = ChannelAfterDispatch(res, conn)
    /\ won' = by
    /\ hpc' = "done" /\ hitem' = 0
    /\ wire' = [wire EXCEPT ![scall] = w]
    /\ utx' = IF utx = "some" THEN "dropped" ELSE utx
    /\ LoopAfter(res)
race2(by, res, w) ==
    /\ dres' = res
    /\ conn' = ChannelAfterDispatch(res, conn)
    /\ won' = by
    /\ hpc' = "done" /\ hitem' = 0
    /\ wire' = [wire EXCEPT ![scall] = DropServerBoth(w)]
    /\ utx' = IF utx = "some" THEN "dropped" ELSE utx
    /\ LoopAfter(res)

\* The cancellation branch of rpc:
\* recv.next().map(|_| RpcServerError::UnexpectedUpdateMessage)
RpcCancelKeepsRecvError(ev) ==
    IF ev = "Err" THEN "RecvError" ELSE "UnexpectedUpdateMessage"
RpcCancel(ev) == "UnexpectedUpdateMessage"

\* The cancellation branch of server_streaming, the same expression.
StreamCancelIgnoresClose(ev) ==
    IF ev = "None" THEN "Ok" ELSE "UnexpectedUpdateMessage"
StreamCancel(ev) == "UnexpectedUpdateMessage"

\* The event recv.next() reports.
RecvEvent(w) ==
    IF ServerRecvPoll(w) = "None" THEN "None"
    ELSE IF Head(w.c2s) = RecvErr THEN "Err" ELSE "Frame"

\* A poll of the cancellation branch that finds it ready.
cancel ==
    /\ spc = "race" /\ ~HasUpdates(SPat)
    /\ ServerRecvPoll(SW) # "Pending"
    /\ race2(RecvEvent(SW),
             IF SPat = Rpc THEN RpcCancel(RecvEvent(SW))
             ELSE StreamCancel(RecvEvent(SW)),
             SW)
    /\ UNCHANGED <<faults, cvars, scall, sreq, ares,
                   ssent, yielded, hend, oneshot>>

\* UnwrapToPending::poll over the one-shot receiver: a value is passed on, a
\* cancelled channel (the sender was dropped without sending) stays pending.
UnwrapErrToReady(tx, val) ==
    IF val # "empty" THEN val
    ELSE IF tx = "dropped" THEN "Canceled" ELSE "Pending"
UnwrapToPending(tx, val) ==
    IF val # "empty" THEN val ELSE "Pending"

\* A poll of the update-error branch of client_streaming and bidi_streaming
\* (read_error.map(Err)) that finds it ready.
read_error_watches_inbound ==
    /\ spc = "race" /\ HasUpdates(SPat)
    /\ \/ /\ UnwrapToPending(utx, oneshot) # "Pending"
          /\ race2("read_error", UnwrapToPending(utx, oneshot), SW)
       \/ /\ UnwrapToPending(utx, oneshot) = "Pending"
          /\ SW.sr = "open" /\ ServerRecvPoll(SW) # "Pending"
          /\ race2(RecvEvent(SW), StreamCancel(RecvEvent(SW)), SW)
    /\ UNCHANGED <<faults, cvars, scall, sreq, ares,
                   ssent, yielded, hend, oneshot>>
read_error ==
    /\ spc = "race" /\ HasUpdates(SPat)
    /\ UnwrapToPending(utx, oneshot) # "Pending"
    /\ race2("read_error", UnwrapToPending(utx, oneshot), SW)
    /\ UNCHANGED <<faults, cvars, scall, sreq, ares,
                   ssent, yielded, hend, oneshot>>

\* UpdateStream::poll_next on substream w with one-shot sender tx, for a
\* message with pattern p.  out is the poll's result, w the substream after
\* it, tx the sender after it and post the error sent on the one-shot.
Posted(tx, e) == IF tx = "some" THEN e ELSE "empty"
TakenStays(tx) == tx
Taken(tx) == IF tx = "some" THEN "taken" ELSE tx
poll_next_keeps_frame(p, w, tx) ==
    IF ServerRecvPoll(w) = "Pending"
      THEN [out |-> "Pending", item |-> 0, w |-> w, tx |-> tx, post |-> "empty"]
    ELSE IF ServerRecvPoll(w) = "None"
      THEN [out |-> "None", item |-> 0, w |-> w, tx |-> tx, post |-> "empty"]
    ELSE IF Head(w.c2s) = RecvErr
      THEN [out |-> "Pending", item |-> 0, w |-> ServerRecvTake(w),
            tx |-> Taken(tx), post |-> Posted(tx, "RecvError")]
    ELSE IF UpdateTryFrom(p, Head(w.c2s))
      THEN [out |-> "Some", item |-> Head(w.c2s).v, w |-> w,
            tx |-> tx, post |-> "empty"]
    ELSE [out |-> "Pending", item |-> 0, w |-> ServerRecvTake(w),
          tx |-> Taken(tx), post |-> Posted(tx, "UnexpectedUpdateMessage")]
poll_next_pending_at_end(p, w, tx) ==
    IF ServerRecvPoll(w) \in {"Pending", "None"}
      THEN [out |-> "Pending", item |-> 0, w |-> w, tx |-> tx, post |-> "empty"]
    ELSE IF Head(w.c2s) = RecvErr
      THEN [out |-> "Pending", item |-> 0, w |-> ServerRecvTake(w),
            tx |-> Taken(tx), post |-> Posted(tx, "RecvError")]
    ELSE IF UpdateTryFrom(p, Head(w.c2s))
      THEN [out |-> "Some", item |-> Head(w.c2s).v, w |-> ServerRecvTake(w),
            tx |-> tx, post |-> "empty"]
    ELSE [out |-> "Pending", item |-> 0, w |-> ServerRecvTake(w),
          tx |-> Taken(tx), post |-> Posted(tx, "UnexpectedUpdateMessage")]
poll_next(p, w, tx) ==
    IF ServerRecvPoll(w) = "Pending"
      THEN [out |-> "Pending", item |-> 0, w |-> w, tx |-> tx, post |-> "empty"]
    ELSE IF ServerRecvPoll(w) = "None"
      THEN [out |-> "None", item |-> 0, w |-> w, tx |-> tx, post |-> "empty"]
    ELSE IF Head(w.c2s) = RecvErr
      THEN [out |-> "Pending", item |-> 0, w |-> ServerRecvTake(w),
            tx |-> Taken(tx), post |-> Posted(tx, "RecvError")]
    ELSE IF UpdateTryFrom(p, Head(w.c2s))
      THEN [out |-> "Some", item |-> Head(w.c2s).v, w |-> ServerRecvTake(w),
            tx |-> tx, post |-> "empty"]
    ELSE [out |-> "Pending", item |-> 0, w |-> ServerRecvTake(w),
          tx |-> Taken(tx), post |-> Posted(tx, "UnexpectedUpdateMessage")]

\* ------------------------------------------------ the handler branch (f2)
\* The handler is user code.  It is modelled by what it can do to the
\* dispatch: await the next update, drop the UpdateStream, return its response
\* (rpc, client_streaming), yield a response or end its stream
\* (server_streaming, bidi_streaming).

\* The handler starts to await updates.next().
handler_await ==
    /\ spc = "race" /\ hpc = "run" /\ HasUpdates(SPat)
    /\ ~hend /\ SW.sr = "open"
    /\ hpc' = "await"
    /\ UNCHANGED <<conn, wire, faults, cvars, svars,
                   hitem, ssent, yielded, hend, utx, oneshot, won>>

\* A poll of the handler branch in which the handler polls the UpdateStream
\* and the poll changes something: the handler goes on if the poll was ready
\* and stays suspended in updates.next() if it was Pending.
update_poll ==
    /\ spc = "race" /\ hpc = "await"
    /\ LET r == poll_next(SPat, SW, utx) IN
         /\ <<r.out, r.w>> # <<"Pending", SW>>
         /\ wire' = [wire EXCEPT ![scall] = r.w]
         /\ utx' = r.tx
         /\ oneshot' = IF r.post # "empty" THEN r.post ELSE oneshot
         /\ yielded' = IF r.out = "Some" THEN Append(yielded, r.item) ELSE yielded
         /\ hend' = (r.out = "None")
         /\ hpc' = IF r.out = "Pending" THEN "await" ELSE "run"
    /\ UNCHANGED <<conn, faults, cvars, svars, hitem, ssent, won>>

\* The handler drops the UpdateStream without reading it to its end.
handler_drop_updates ==
    /\ spc = "race" /\ hpc = "run" /\ HasUpdates(SPat) /\ SW.sr = "open"
    /\ wire' = [wire EXCEPT ![scall] = DropServerRecv(@)]
    /\ utx' = IF utx = "some" THEN "dropped" ELSE utx
    /\ UNCHANGED <<conn, faults, cvars, svars,
                   hpc, hitem, ssent, yielded, hend, oneshot, won>>

\* The handler future of rpc or client_streaming completes with a response;
\* the UpdateStream it was given is dropped with it.
handler_return ==
    /\ spc = "race" /\ hpc = "run" /\ ~HasResponseStream(SPat)
    /\ hitem' = 1
    /\ hpc' = "send"
    /\ wire' = [wire EXCEPT ![scall] =
                  IF SPat = ClientStreaming THEN DropServerRecv(@) ELSE @]
    /\ utx' = IF utx = "some" THEN "dropped" ELSE utx
    /\ UNCHANGED <<conn, faults, cvars, svars, ssent, yielded, hend, oneshot, won>>

\* responses.next() of server_streaming or bidi_streaming yields an item.
handler_yield ==
    /\ spc = "race" /\ hpc = "run" /\ HasResponseStream(SPat)
    /\ Len(ssent) < MaxResp
    /\ hitem' = Len(ssent) + 1
    /\ hpc' = "send"
    /\ UNCHANGED <<conn, wire, faults, cvars, svars,
                   ssent, yielded, hend, utx, oneshot, won>>

\* responses.next() yields None: the loop ends and the branch is ready with
\* Ok(()).
handler_end ==
    /\ spc = "race" /\ hpc = "run" /\ HasResponseStream(SPat)
    /\ race2("handler", "Ok", SW)
    /\ UNCHANGED <<faults, cvars, scall, sreq, ares,
                   ssent, yielded, hend, oneshot>>

\* send.send(res).await succeeds.  rpc and client_streaming are then ready
\* with Ok(()); the streaming patterns go on with their loop.
send_response_again ==
    /\ spc = "race" /\ hpc = "send"
    /\ ServerCanSend(SW) /\ Len(ssent) < MaxResp
    /\ ssent' = Append(ssent, hitem)
    /\ wire' = [wire EXCEPT ![scall] = ServerSend(@, ResponseIntoRes(SPat, hitem))]
    /\ hpc' = IF HasResponseStream(SPat) THEN "run" ELSE "send"
    /\ UNCHANGED <<conn, faults, cvars, svars, hitem, yielded, hend, utx, oneshot, won>>
send_response ==
    /\ spc = "race" /\ hpc = "send"
    /\ ServerCanSend(SW)
    /\ ssent' = Append(ssent, hitem)
    /\ IF HasResponseStream(SPat)
         THEN /\ wire' = [wire EXCEPT ![scall] =
                            ServerSend(@, ResponseIntoRes(SPat, hitem))]
              /\ hpc' = "run"
              /\ UNCHANGED <<conn, spc, dres, firstErr, utx, hitem, won>>
         ELSE race2("handler", "Ok", ServerSend(SW, ResponseIntoRes(SPat, hitem)))
    /\ UNCHANGED <<faults, cvars, scall, sreq, ares,
                   yielded, hend, oneshot>>

\* send.send(res).await fails because the client dropped its read half:
\* map_err(RpcServerError::SendError), and `?` in the streaming loops.
send_response_closed_goes_on ==
    /\ spc = "race" /\ hpc = "send"
    /\ ~ServerCanSend(SW)
    /\ hpc' = "run"
    /\ UNCHANGED <<conn, wire, faults, cvars, svars,
                   hitem, ssent, yielded, hend, utx, oneshot, won>>
send_response_closed ==
    /\ spc = "race" /\ hpc = "send"
    /\ ~ServerCanSend(SW)
    /\ race2("handler", "SendError", SW)
    /\ UNCHANGED <<faults, cvars, scall, sreq, ares,
                   ssent, yielded, hend, oneshot>>

\* send.send(res).await fails on a transport error.
send_response_error ==
    /\ spc = "race" /\ hpc = "send"
    /\ ServerCanSend(SW) /\ faults < MaxFaults
    /\ faults' = faults + 1
    /\ race2("handler", "SendError", SW)
    /\ UNCHANGED <<cvars, scall, sreq, ares,
                   ssent, yielded, hend, oneshot>>

\* ------------------------------------------------------- transport faults
\* A RecvStream yields Err(RecvError).
recv_error ==
    /\ faults < MaxFaults
    /\ faults' = faults + 1
    /\ \E k \in 1..ccall :
         \/ /\ wire[k].sr = "open" /\ k >= scall
            /\ wire' = [wire EXCEPT ![k].c2s = Append(@, RecvErr)]
         \/ /\ wire[k].cr = "open"
            /\ wire' = [wire EXCEPT ![k].s2c = Append(@, RecvErr)]
    /\ UNCHANGED <<conn, cvars, svars, hvars>>

\* The client's RecvStream yields a frame that is no response of the call's
\* message (a peer that answers with another message's response).
ForeignResponse(p) == [t |-> "res", m |-> OtherMsg(p), v |-> 1]
foreign_response ==
    /\ faults < MaxFaults
    /\ faults' = faults + 1
    /\ ccall >= 1 /\ CW.cr = "open"
    /\ wire' = [wire EXCEPT ![ccall].s2c = Append(@, ForeignResponse(CPat))]
    /\ UNCHANGED <<conn, cvars, svars, hvars>>

\* ------------------------------------------------------------ the system
\* A client that uses the typed interface and completes its calls.
ClientStep ==
    \/ open_bi \/ send_request \/ ClientChannel_rpc \/ sink_send \/ sink_close
    \/ response_future \/ response_stream_next \/ response_drop
    \/ drop_connection
\* A client that writes foreign frames or abandons a call.
DeviantStep == raw_send \/ response_drop_early
\* The server task on a transport without errors.
ServerStep ==
    \/ accept_bi \/ accept_bi_closed \/ accept_one \/ cancel \/ read_error
    \/ handler_await \/ update_poll \/ handler_drop_updates \/ handler_return
    \/ handler_yield \/ handler_end \/ send_response
\* Errors of the transport, and a send to a half the client dropped.
FaultStep ==
    \/ open_bi_error \/ send_request_error \/ accept_bi_error
    \/ send_response_error \/ recv_error \/ foreign_response
Next == ClientStep \/ DeviantStep \/ ServerStep \/ send_response_closed \/ FaultStep

Spec == Init /\ [][Next]_vars

\* ================================================================ properties
\* A dispatch is running or has returned for a request that accept_one read.
Dispatching(p) == ares = "Ok" /\ SPat = p

\* C1: in a client_streaming dispatch, once the UpdateStream has posted an
\* error on the one-shot, the dispatch returns exactly that error and the
\* response of the handler is never sent.
C1_PostedErrorIsReturned ==
    (Dispatching(ClientStreaming) /\ oneshot # "empty")
        => (dres \in {"none", oneshot} /\ ssent = << >>)

\* C2: after the first projection failure or receive error the UpdateStream
\* stays pending: no later poll of it yields an update or the end of the
\* stream.
C2_PendingAfterFailure ==
    [][(spc = "race" /\ utx = "taken" /\ scall' = scall)
           => (yielded' = yielded /\ hend' = hend)]_vars

\* The tasks are scheduled: the runtime polls the server task whenever it can
\* go on (a send to a half the client dropped returns, with its error), and
\* the client goes on with its calls.
FairSpec ==
    /\ Spec
    /\ WF_vars(ClientStep)
    /\ WF_vars(ServerStep \/ send_response_closed)

\* C3: with a client that completes every call through the typed interface and
\* then drops its connection, on a transport without errors, no accept_one and
\* no dispatch returns an error to the server loop except AcceptBiError, and
\* the server loop terminates, with AcceptBiError.
WellFormedRun == cgood /\ faults = 0
OnlyAcceptBiError ==
    /\ firstErr \in {"none", "AcceptBiError"}
    /\ dres \in {"none", "Ok"}
    /\ ares \in {"none", "Ok"}
    /\ (spc = "stopped" => firstErr = "AcceptBiError" /\ conn = "closed")
C3_ServerEndsWithAcceptBiError ==
    /\ [](WellFormedRun => OnlyAcceptBiError)
    /\ <>(~WellFormedRun \/ (spc = "stopped" /\ firstErr = "AcceptBiError"))
C3_Witness ==
    /\ WellFormedRun
    /\ spc = "stopped" /\ firstErr = "AcceptBiError"
    /\ scall = MaxCalls /\ dres = "Ok"

\* s is an initial part of t.
Prefix(s, t) == Len(s) <= Len(t) /\ \A i \in 1..Len(s) : s[i] = t[i]
\* The client pushed only through the typed update sink on call k.
TypedUpdates(k) == \A i \in 1..Len(pushed[k]) : pushed[k][i] # 0

\* C4: in client_streaming and bidi calls on a transport without errors, what
\* the UpdateStream has yielded is always an initial part of what the client
\* pushed into its sink, and is all of it once the handler has read the
\* UpdateStream to its end (the client has then closed the sink); the request
\* frame is never among the yielded updates.
C4_UpdatesArePrefix ==
    (ares = "Ok" /\ HasUpdates(SPat) /\ faults = 0 /\ TypedUpdates(scall))
        => /\ Prefix(yielded, pushed[scall])
           /\ \A i \in 1..Len(yielded) : yielded[i] = i
           /\ (hend => yielded = pushed[scall] /\ SW.cw = "closed")
C4_Witness ==
    /\ Dispatching(BidiStreaming) /\ faults = 0 /\ TypedUpdates(scall)
    /\ hend /\ yielded = pushed[scall] /\ Len(yielded) = MaxUpd

\* C5: in server_streaming and bidi calls on a transport without errors, what
\* the client's response stream has yielded is always, as Ok items, an initial
\* part of what the handler's stream produced; once the dispatch has returned
\* Ok(()) and the client has read its stream to the end, it is all of it.
OkItems(rs) == [i \in 1..Len(rs) |-> OkItem(rs[i])]
C5_ResponsesArePrefix ==
    (scall = ccall /\ ares = "Ok" /\ HasResponseStream(SPat) /\ faults = 0)
        => /\ Prefix(cgot, OkItems(ssent))
           /\ (cend => dres # "none")
           /\ (dres = "Ok" /\ cend => cgot = OkItems(ssent))
C5_Witness ==
    /\ scall = ccall /\ Dispatching(ServerStreaming) /\ faults = 0
    /\ dres = "Ok" /\ cend /\ cgot = OkItems(ssent) /\ Len(ssent) = MaxResp

\* C6: ServerChannel::rpc returns UnexpectedUpdateMessage exactly when its
\* cancellation branch saw an event on the inbound half (a frame, the end of
\* the stream or a RecvError) before the computation branch completed, never
\* RecvError or EarlyClose; it returns Ok(()) only when the computation branch
\* won and its single response frame was sent, and SendError only when that
\* branch won and the send failed, nothing being sent.
InboundEvents == {"Frame", "None", "Err"}
C6_RpcDispatchOutcome ==
    Dispatching(Rpc) =>
        /\ dres \in {"none", "Ok", "SendError", "UnexpectedUpdateMessage"}
        /\ (won \in InboundEvents <=> dres = "UnexpectedUpdateMessage")
        /\ (dres = "Ok" => won = "handler" /\ ssent = <<1>>)
        /\ (dres = "SendError" => won = "handler" /\ ssent = << >>)
        /\ (dres = "UnexpectedUpdateMessage" => ssent = << >>)
        /\ (dres = "none" => ssent = << >>)
C6_Witness ==
    /\ Dispatching(Rpc) /\ won = "Err" /\ dres = "UnexpectedUpdateMessage"

C8_ChannelUsableAfterError ==
    firstErr = "UnexpectedUpdateMessage" =>
        /\ (conn = "closed" => cpc = "gone")
        /\ (scall > 1 /\ ares = "Ok" =>
              /\ sreq = IntoReq(pat[scall])
              /\ (SPat = Rpc /\ faults = 0 /\ pushed[scall] = << >>
                    => dres \in {"none", "Ok"}))
C8_Witness ==
    /\ firstErr = "UnexpectedUpdateMessage" /\ scall = 2 /\ ccall = 2
    /\ Dispatching(Rpc) /\ dres = "Ok" /\ cres = "Ok" /\ cgot = <<OkItem(1)>>

\* C9: accept_one returns EarlyClose when the receive half of the accepted
\* substream ends before any frame, RecvError when its first receive fails,
\* and otherwise the first inbound frame, which is the request the client
\* sent, having taken exactly that frame from the receive half; a failing
\* accept_bi gives AcceptBiError; a dispatch runs only on such a request.
C9_AcceptOneOutcome ==
    [][/\ (spc = "first" /\ spc' # "first") =>
            /\ (ServerRecvPoll(SW) = "None" => ares' = "EarlyClose")
            /\ (ServerRecvPoll(SW) = "Some" /\ Head(SW.c2s) = RecvErr
                  => ares' = "RecvError")
            /\ (ServerRecvPoll(SW) = "Some" /\ Head(SW.c2s) # RecvErr
                  => /\ ares' = "Ok" /\ spc' = "race"
                     /\ sreq' = Head(SW.c2s)
                     /\ sreq' = IntoReq(pat[scall])
                     /\ wire'[scall].c2s = Tail(SW.c2s)
                     /\ wire'[scall].sr = "open" /\ wire'[scall].sw = "open")
       /\ (spc = "accept" /\ spc' = "stopped" => firstErr' = FirstErr("AcceptBiError"))
       /\ (spc' = "race" => ares' = "Ok" /\ sreq' = IntoReq(pat'[scall']))
      ]_vars
C9_Witness ==
    /\ spc = "race" /\ ares = "Ok" /\ sreq = IntoReq(BidiStreaming)
    /\ Len(SW.c2s) = MaxUpd /\ hpc = "run" /\ yielded = << >>

\* C10 as stated: once the write half of an rpc call's substream is closed,
\* the client has observed the response frame, the end of the stream or a
\* receive error on the read half.
RpcCallStarted == ccall >= 1 /\ CPat = Rpc /\ cpc # "opened" /\ cres # "Open"
C10_WriteHalfClosedAfterReceive ==
    (RpcCallStarted /\ CW.cw = "closed")
        => cres \in {"Ok", "DowncastError", "EarlyClose", "RecvError"}
\* C10 amended: once the write half of an rpc call's substream is closed, the
\* client has observed the response frame, the end of the stream or a receive
\* error on the read half, or the send of the request has failed.
C10_WriteHalfClosedAfterReceiveOrSendError ==
    (RpcCallStarted /\ CW.cw = "closed")
        => cres \in {"Ok", "DowncastError", "EarlyClose", "RecvError", "Send"}
C10_Witness ==
    /\ RpcCallStarted /\ CW.cw = "closed" /\ cres = "Ok" /\ cgot = <<OkItem(1)>>

\* C11: the stream returned by ClientChannel::server_streaming holds the write
\* half of the substream: from the open of the call on, the write half is
\* closed exactly when the stream is gone (dropped by the user, or never
\* returned because the send of the request failed), in particular not after
\* the request was sent, not while items are read and not at the end of the
\* response stream.
C11_KeepaliveHoldsWriteHalf ==
    (ccall >= 1 /\ CPat = ServerStreaming) =>
        /\ (CW.cw = "closed" <=> CW.cr = "closed")
        /\ (cpc = "active" => CW.cw = "open" /\ CW.cr = "open")
C11_Witness ==
    /\ ccall >= 1 /\ CPat = ServerStreaming /\ cpc = "active" /\ cend
    /\ Len(cgot) = MaxResp /\ CW.cw = "open" /\ CW.cr = "open"

\* The server has seen the end of the inbound half or a receive error on it:
\* in its cancellation branch, or in the UpdateStream the handler polls.
InboundEndObserved ==
    won \in {"None", "Err"} \/ hend \/ oneshot = "RecvError"
ClientGone == SW.cw = "closed" /\ SW.cr = "closed"

StreamDropped == Dispatching(ServerStreaming) /\ SW.cr = "closed"
C13_DroppedStreamEndsDispatch ==
    /\ (spc = "race" /\ StreamDropped) ~> (spc # "race")
    /\ [][(StreamDropped /\ scall' = scall) =>
            /\ ssent' = ssent
            /\ wire'[scall].s2c = << >>
            /\ (spc = "race" /\ spc' # "race" =>
                  /\ dres' \in {"SendError", "UnexpectedUpdateMessage", "Ok"}
                  /\ spc' = "accept" /\ conn' = conn)]_vars
C13_Witness ==
    /\ StreamDropped /\ scall = ccall /\ ~cend /\ Len(cgot) = 1
    /\ dres = "SendError" /\ ssent = <<1>> /\ spc = "accept"

\* C14: every dispatch reports one outcome, Ok(()) or one RpcServerError, and
\* reports it once; when it is reported both server halves of the substream
\* are closed and the handler branch is gone, and afterwards the server sends
\* and reads nothing on that substream.
DispatchOutcomes ==
    {"Ok", "SendError", "RecvError", "UnexpectedUpdateMessage"}
ResponseFrames(q) == SelectSeq(q, LAMBDA f : f.t = "res" /\ f.m = SPat)
C14_OneOutcomeHalvesClosed ==
    [][/\ (dres' # "none" =>
             /\ dres' \in DispatchOutcomes
             /\ hpc' = "done"
             /\ wire'[scall'].sr = "closed" /\ wire'[scall'].sw = "closed"
             /\ wire'[scall'].c2s = << >>)
       /\ (dres # "none" /\ scall' = scall =>
             /\ dres' = dres /\ won' = won
             /\ ssent' = ssent /\ yielded' = yielded
             /\ Len(ResponseFrames(wire'[scall].s2c))
                  <= Len(ResponseFrames(wire[scall].s2c)))
      ]_vars
C14_Witness ==
    /\ Dispatching(BidiStreaming) /\ dres = "UnexpectedUpdateMessage"
    /\ SW.sr = "closed" /\ SW.sw = "closed" /\ ssent = <<1>>
    /\ scall = ccall /\ CW.cr = "open" /\ CW.cw = "open"

\* C15: a ClientChannel method whose open_bi fails returns Open and opens and
\* sends nothing; one whose send of the request fails returns Send and leaves
\* the user without halves; the user gets to the halves only after the request
\* was sent, so what the client has written on a substream is the request
\* followed by what went through the sink.
ClientFrames(k) ==
    <<IntoReq(pat[k])>> \o
    [i \in 1..Len(pushed[k]) |->
        IF pushed[k][i] = 0 THEN ForeignUpdate(pat[k])
        ELSE UpdateIntoReq(pat[k], pushed[k][i])]
NoRecvErr(q) == \A i \in 1..Len(q) : q[i] # RecvErr
ServerHasNotRead == scall < ccall \/ spc = "first"
SendFailed ==
    /\ \A i \in 1..Len(CW.c2s) : CW.c2s[i] = RecvErr
    /\ CW.cw = "closed" /\ CW.cr = "closed" /\ pushed[ccall] = << >>
C15_RequestBeforeHalves ==
    [][/\ (cres' = "Open" /\ cres # "Open") =>
             wire' = wire /\ ccall' = ccall /\ pushed' = pushed /\ cpc' = "idle"
       /\ (cres' = "Open" /\ cres = "Open") =>
             /\ ccall' = ccall /\ cpc' \in {"idle", "gone"}
             /\ (ccall >= 1 => pushed'[ccall] = pushed[ccall])
       /\ (cres' = "Send" =>
             /\ cpc' \in {"idle", "gone"} /\ cgot' = << >>
             /\ wire'[ccall'].cw = "closed" /\ wire'[ccall'].cr = "closed"
             /\ SendFailed')
       /\ (cpc' = "opened" => pushed'[ccall'] = << >> /\ cgot' = << >> /\ ~cend')
       /\ (ccall' >= 1 /\ cpc' # "opened" /\ ~SendFailed'
             /\ ServerHasNotRead' /\ NoRecvErr(wire'[ccall'].c2s)
             => wire'[ccall'].c2s = ClientFrames(ccall)')
      ]_vars
C15_Witness ==
    /\ ccall >= 1 /\ CPat = BidiStreaming /\ cpc = "active" /\ scall < ccall
    /\ Len(pushed[ccall]) = MaxUpd /\ CW.c2s = ClientFrames(ccall)

\* C16: ClientChannel::rpc and the response future of client_streaming read one
\* frame of the read half and no more: the end of the stream gives EarlyClose,
\* a receive error RecvError, a frame that is no response of the message
\* DowncastError and a response that response; the read half is gone with the
\* result, whatever is still in flight on it.
ReadResults == {"EarlyClose", "RecvError", "DowncastError", "Ok"}
C16_OneFrameRead ==
    [][(ccall >= 1 /\ ccall' = ccall /\ CPat \in {Rpc, ClientStreaming}
          /\ cres = "none" /\ cres' \in ReadResults) =>
            /\ wire'[ccall].cr = "closed" /\ Len(cgot') <= 1
            /\ (ClientRecvPoll(CW) = "None" => cres' = "EarlyClose")
            /\ (ClientRecvPoll(CW) = "Some" =>
                  LET f == Head(CW.s2c) IN
                    /\ (f = RecvErr => cres' = "RecvError")
                    /\ (f = ForeignResponse(CPat) => cres' = "DowncastError")
                    /\ (f = ResponseIntoRes(CPat, f.v) =>
                          cres' = "Ok" /\ cgot' = <<OkItem(f.v)>>)
                    /\ (cres' # "Ok" => cgot' = cgot))
      ]_vars
C16_Witness ==
    /\ ccall >= 1 /\ CPat = ClientStreaming /\ cres = "DowncastError"
    /\ CW.cr = "closed" /\ cgot = << >>

\* C17: the debug and display representations give the six kinds of
\* RpcServerError six different labels: the label of the error a dispatch
\* reports belongs to no other kind.
C17_LabelsIdentifyKind ==
    dres \in ErrorKinds =>
        \A e \in ErrorKinds :
            (DebugLabel(e) = DebugLabel(dres) \/ DisplayLabel(e) = DisplayLabel(dres))
                => e = dres

\* C18: in a bidi_streaming dispatch, once the UpdateStream has posted an
\* error, no further response item is sent and the dispatch returns that
\* error.
C18_NoItemAfterPostedError ==
    [][(Dispatching(BidiStreaming) /\ oneshot # "empty" /\ scall' = scall)
          => (ssent' = ssent /\ dres' \in {"none", oneshot})]_vars

\* C19: an UpdateStream posts at most one error on its one-shot: the poll that
\* meets the first projection failure or RecvError posts the error of that
\* frame and gives up the sender; a poll that meets a later failure posts
\* nothing; the posted value never changes, and it is the error the dispatch
\* returns when the error branch wins.
FailureOf(f) == IF f = RecvErr THEN "RecvError" ELSE "UnexpectedUpdateMessage"
FailingPoll ==
    /\ spc = "race" /\ HasUpdates(SPat) /\ SW.c2s # << >>
    /\ (Head(SW.c2s) = RecvErr \/ ~UpdateTryFrom(SPat, Head(SW.c2s)))
    /\ wire'[scall].sr = "open" /\ wire'[scall].c2s = Tail(SW.c2s)
C19_OneShotFiresOnce ==
    [][/\ (FailingPoll =>
             /\ yielded' = yielded /\ hend' = hend /\ dres' = dres
             /\ IF utx = "some"
                  THEN oneshot' = FailureOf(Head(SW.c2s)) /\ utx' = "taken"
                  ELSE oneshot' = oneshot /\ utx' = utx)
       /\ (oneshot # "empty" /\ scall' = scall => oneshot' = oneshot)
       /\ (utx' = "some" => oneshot' = "empty")
       /\ (oneshot' # "empty" => utx' = "taken")
       /\ (won' = "read_error" => oneshot' # "empty" /\ dres' = oneshot')
      ]_vars
C19_Witness ==
    /\ spc = "race" /\ Dispatching(BidiStreaming) /\ pushed[scall] = <<0, 0>>
    /\ SW.sr = "open" /\ SW.c2s = << >> /\ yielded = << >>
    /\ utx = "taken" /\ oneshot = "UnexpectedUpdateMessage"

\* C20: in client_streaming and bidi_streaming, while the UpdateStream has
\* posted no error the error branch never completes, also not when the
\* handler has dropped the UpdateStream or read it to its end: the dispatch
\* then ends by its handler branch, with Ok(()) or SendError.
C20_NoErrorWithoutPost ==
    (ares = "Ok" /\ HasUpdates(SPat)) =>
        /\ dres \in {"none"} \cup DispatchOutcomes
        /\ (won = "read_error" => oneshot # "empty")
        /\ (oneshot = "empty" =>
              /\ won \in {"none", "handler"}
              /\ dres \in {"none", "Ok", "SendError"})
C20_Witness ==
    /\ Dispatching(ClientStreaming) /\ utx = "dropped" /\ oneshot = "empty"
    /\ hend /\ Len(yielded) = MaxUpd /\ dres = "Ok" /\ won = "handler"

\* C21: when the cancellation branch or the update-error branch wins the
\* race, the handler branch is dropped: the winning step sends nothing, the
\* dispatch returns the error with the handler gone and the send half
\* closed, and from then on the handler takes no step and no response frame
\* of the call is sent.
ErrorBranchWins == InboundEvents \cup {"read_error"}
C21_LoserIsDropped ==
    [][/\ (won' \in ErrorBranchWins =>
             /\ dres' \in DispatchOutcomes \ {"Ok", "SendError"}
             /\ hpc' = "done" /\ spc' # "race"
             /\ wire'[scall'].sw = "closed")
       /\ (won = "none" /\ won' \in ErrorBranchWins =>
             /\ ssent' = ssent /\ yielded' = yielded /\ hend' = hend
             /\ wire'[scall].s2c = SW.s2c)
       /\ (won \in ErrorBranchWins /\ scall' = scall =>
             /\ UNCHANGED <<hpc, hitem, ssent, yielded, hend, utx, oneshot>>
             /\ dres' = dres
             /\ Len(ResponseFrames(wire'[scall].s2c))
                  <= Len(ResponseFrames(SW.s2c)))
      ]_vars
C21_Witness ==
    /\ Dispatching(BidiStreaming) /\ won = "read_error" /\ dres = "RecvError"
    /\ ssent = <<1>> /\ yielded = <<1>> /\ hpc = "done"
    /\ scall = ccall /\ CW.cr = "open" /\ cgot = << >> /\ Len(CW.s2c) = 1

\* C22: ServerChannel::rpc and ServerChannel::client_streaming send at most one
\* response frame per call, and only once the handler has completed with its
\* result; when the dispatch has returned Ok(()) exactly one response frame
\* was sent, the injection of that result.
SingleResponse == ares = "Ok" /\ ~HasResponseStream(SPat)
C22_OneResponseAfterHandler ==
    [][/\ (SingleResponse' =>
             /\ ssent' \in {<< >>, <<1>>}
             /\ (dres' = "Ok" <=> ssent' = <<1>>)
             /\ Len(ResponseFrames(wire'[scall'].s2c)) <= Len(ssent'))
       /\ (SingleResponse /\ scall' = scall /\ ssent' # ssent =>
             /\ hpc = "send" /\ hitem = 1 /\ ssent = << >>
             /\ (SPat = ClientStreaming => SW.sr = "closed")
             /\ wire'[scall].s2c = Append(SW.s2c, ResponseIntoRes(SPat, 1))
             /\ dres' = "Ok" /\ won' = "handler")
      ]_vars
C22_Witness ==
    /\ Dispatching(ClientStreaming) /\ dres = "Ok" /\ ssent = <<1>>
    /\ Len(yielded) = MaxUpd /\ scall = ccall /\ CW.cr = "open"
    /\ CW.s2c = <<ResponseIntoRes(ClientStreaming, 1)>>

\* C23: in client_streaming and bidi_streaming the dispatch reads the inbound
\* half only through the handler's polls of the UpdateStream, one frame per
\* poll: a frame leaves the inbound half either taken by such a poll (yielded
\* as an update, or failing) or discarded unread when the half is dropped.
\* UnexpectedUpdateMessage and RecvError are therefore reported only for a
\* frame the handler's polls reached, through the one-shot, and a dispatch
\* whose handler never polled that far returns without them.
UpdateCall == ares = "Ok" /\ HasUpdates(SPat)
C23_InboundReadOnlyByHandler ==
    [][/\ (UpdateCall /\ spc = "race" /\ scall' = scall
             /\ wire'[scall].c2s # SW.c2s) =>
             \/ /\ Len(wire'[scall].c2s) = Len(SW.c2s) + 1
                /\ Prefix(SW.c2s, wire'[scall].c2s)
                /\ UNCHANGED <<yielded, hend, oneshot, utx>>
             \/ /\ wire'[scall].sr = "open" /\ hpc = "await"
                /\ wire'[scall].c2s = Tail(SW.c2s)
                /\ IF FailingPoll
                     THEN yielded' = yielded
                     ELSE yielded' = Append(yielded, Head(SW.c2s).v)
             \/ /\ wire'[scall].sr = "closed" /\ wire'[scall].c2s = << >>
                /\ UNCHANGED <<yielded, hend, oneshot>>
       /\ (UpdateCall /\ oneshot = "empty" /\ oneshot' # "empty") =>
             hpc = "await" /\ FailingPoll
       /\ (UpdateCall' /\ dres' \in {"UnexpectedUpdateMessage", "RecvError"}) =>
             won' = "read_error" /\ oneshot' = dres'
      ]_vars
C23_Witness ==
    /\ Dispatching(BidiStreaming) /\ dres = "Ok" /\ faults = 0
    /\ pushed[scall] = <<1, 0>> /\ yielded = <<1>> /\ ~hend
    /\ oneshot = "empty" /\ ssent = <<1>>

\* C24: the response streams of ClientChannel::server_streaming and
\* ClientChannel::bidi turn each frame of the read half, in order, into one
\* item: Ok(response) for a response of the message, DowncastError for another
\* frame, RecvError for a receive error.  At the end of the read half they end
\* without an item, also when nothing was received; an error item does not
\* end the stream.
StreamCall == ccall >= 1 /\ HasResponseStream(CPat) /\ cpc = "active"
C24_ResponseStreamItems ==
    [][(StreamCall /\ ccall' = ccall /\ (cgot' # cgot \/ cend' # cend)) =>
         IF ClientRecvPoll(CW) = "Some"
           THEN LET f == Head(CW.s2c) IN
                  /\ Len(cgot') = Len(cgot) + 1 /\ Prefix(cgot, cgot')
                  /\ wire'[ccall].s2c = Tail(CW.s2c)
                  /\ wire'[ccall].cr = "open"
                  /\ cend' = cend /\ ~cend
                  /\ (f = RecvErr => cgot'[Len(cgot')] = ErrItem("RecvError"))
                  /\ (f # RecvErr /\ ~ResponseTryFrom(CPat, f) =>
                        cgot'[Len(cgot')] = ErrItem("DowncastError"))
                  /\ (f # RecvErr /\ ResponseTryFrom(CPat, f) =>
                        cgot'[Len(cgot')] = OkItem(f.v))
           ELSE /\ ClientRecvPoll(CW) = "None"
                /\ cend' /\ ~cend /\ cgot' = cgot
                /\ wire'[ccall].cr = "open"]_vars
C24_Witness ==
    /\ StreamCall /\ CPat = BidiStreaming /\ cend
    /\ cgot = <<ErrItem("DowncastError"), OkItem(1)>>

====
